---- MODULE Spec2Model ----
(***************************************************************************)
(* A model of pyrightmcp: the run_pyright / list_allowed_directories tools *)
(* of main.py and the set-up pipeline of pyright_service.py.               *)
(*                                                                         *)
(* A path is a sequence of segments and a segment is a sequence of         *)
(* characters, so that "/w/pX" shares a string prefix with "/w/p" without  *)
(* being below it.  The file system, the outcome of every subprocess and   *)
(* the arguments of every request are the environment's choice.            *)
(***************************************************************************)
EXTENDS Naturals, Sequences, FiniteSets

VARIABLES
    started,        \* "no" | "serve" | "direct": how the transport was started;
                    \* "exited" | "raised": serve refused its transport, or
                    \* raised while resolving the directories
    allowed_paths,  \* main.allowed_paths: None or the list of resolved roots
    fs,             \* the directories and files of the project /w/p on disk
    links,          \* the symbolic links on disk: link path -> its target
    config,         \* the contents of <root>/pyrightconfig.json, per project root
    reqs,           \* the request slots the transport serves concurrently
    loop,           \* the request whose handler occupies the event loop, or 0
    req,            \* per request: position, locals, steps run so far, reply
    listed          \* the last reply of list_allowed_directories, or None

vars == <<started, allowed_paths, fs, links, config, reqs, loop, req, listed>>

(***************************************************************************)
(* Bounds of the model.                                                    *)
(***************************************************************************)
\* The type-checker's exit codes range over 0..MaxExit.
MaxExit == 2

ReqIds == {1, 2}

(***************************************************************************)
(* Paths.                                                                  *)
(***************************************************************************)
W      == <<"w">>
P      == <<"p">>
PX     == <<"p", "X">>
S      == <<"s">>
O      == <<"o">>
L      == <<"l">>
N      == <<"n">>
\* A name with an embedded NUL character, "p\0".
PNul   == <<"p", "NUL">>
Dot    == <<".">>
DotDot == <<".", ".">>

\* The working directory of the server process.
Cwd == <<W>>

WP  == <<W, P>>
WPX == <<W, PX>>
WPS == <<W, P, S>>
WPL == <<W, P, L>>
RootO == <<O>>

\* Path(s): what the caller wrote, absolute or not, segments uninterpreted.
Raw(abs, segs) == [abs |-> abs, segs |-> segs]

Front(s) == SubSeq(s, 1, Len(s) - 1)

\* pathlib's a / b: an absolute right operand replaces the left one.
JoinPath(a, b) ==
    IF b.abs THEN b ELSE [abs |-> a.abs, segs |-> a.segs \o b.segs]

\* os.path.realpath, as Path.resolve() uses it (strict=False): "." is dropped,
\* ".." removes the last resolved segment, a symbolic link is replaced by its
\* target and the walk goes on from there.
RECURSIVE JoinRealPath(_, _, _)
JoinRealPath(lk, path, rest) ==
    IF rest = <<>> THEN path
    ELSE LET name == Head(rest)
             tail == Tail(rest)
         IN  IF name = Dot THEN JoinRealPath(lk, path, tail)
             ELSE IF name = DotDot
                  THEN JoinRealPath(lk, IF path = <<>> THEN <<>> ELSE Front(path), tail)
             ELSE LET newpath == Append(path, name)
                  IN  IF newpath \in DOMAIN lk
                      THEN JoinRealPath(lk, <<>>, lk[newpath] \o tail)
                      ELSE JoinRealPath(lk, newpath, tail)

\* What Path.resolve() does: it returns a path or raises.
Resolved(path) == [exc |-> "none", path |-> path]
ValueError     == [exc |-> "ValueError", path |-> <<>>]

\* The string holds a NUL character: os.lstat refuses it with
\* ValueError("embedded null byte"), which realpath does not catch.
HasNul(raw) ==
    \E i \in 1..Len(raw.segs) :
        \E j \in 1..Len(raw.segs[i]) : raw.segs[i][j] = "NUL"

\* Path.resolve(): a relative path is taken from the working directory.
Resolve(lk, raw) ==
    IF HasNul(raw) THEN ValueError
    ELSE Resolved(JoinRealPath(lk, <<>>, (IF raw.abs THEN <<>> ELSE Cwd) \o raw.segs))

\* str(path): the segments joined by "/".
RECURSIVE StrSegs(_)
StrSegs(path) ==
    IF path = <<>> THEN <<>> ELSE <<"/">> \o Head(path) \o StrSegs(Tail(path))

Str(path) == IF path = <<>> THEN <<"/">> ELSE StrSegs(path)

IsPrefix(s, t) == Len(s) <= Len(t) /\ SubSeq(t, 1, Len(s)) = s

\* A plausible slip: containment decided on the strings.
is_relative_to_str(path, other) == IsPrefix(Str(other), Str(path))

\* PurePath.is_relative_to: other's segments are a prefix of path's segments.
is_relative_to(path, other) == IsPrefix(other, path)

(***************************************************************************)
(* The file system.  /, /w, /o and /w/pX always exist and hold nothing of  *)
(* interest; the project /w/p, with its subdirectory /w/p/s, is the        *)
(* environment's choice: present or not, with or without a manifest, with  *)
(* .venv absent, a plain file or a directory.                              *)
(***************************************************************************)
FsStates ==
    [proj : BOOLEAN, manifest : BOOLEAN, venv : {"none", "file", "dir"}]

FsOk(f) == f.proj \/ (~f.manifest /\ f.venv = "none")

LinkStates(f) ==
    {[x \in {} |-> <<>>]} \cup
    (IF f.proj THEN {[x \in {WPL} |-> RootO]} ELSE {})

Dirs(f) == {<<>>, <<W>>, RootO, WPX} \cup (IF f.proj THEN {WP, WPS} ELSE {})

\* Path.exists() of a resolved path.
Exists(f, path) == path \in Dirs(f)

\* (root / "pyproject.toml").exists() or (root / "setup.py").exists()
HasManifest(f, root) == root = WP /\ f.proj /\ f.manifest

\* (root / ".venv").exists() and (root / ".venv").is_dir()
VenvIsDir(f, root) == root = WP /\ f.proj /\ f.venv = "dir"

\* Every path a request can resolve to is a possible project root.
ProjectRoots == {<<>>, <<W>>, WP, WPX, WPS, WPL, RootO, <<W, O>>}

(***************************************************************************)
(* Values.                                                                 *)
(***************************************************************************)
None == [tag |-> "None"]
List(items) == [tag |-> "list", items |-> items]

Bool(b) == [tag |-> "bool", value |-> b]

\* model.PyrightError; the message is a fixed text and what is formatted into it.
PyrightError(text, arg) ==
    [tag |-> "PyrightError", message |-> [text |-> text, arg |-> arg]]

\* model.PyrightResult
PyrightResult(output, exit_code, directory) ==
    [tag |-> "PyrightResult", output |-> output, exit_code |-> exit_code,
     directory |-> directory]

\* model.VenvStatus
VenvStatus(exists, path, activated) ==
    [tag |-> "VenvStatus", exists |-> exists, path |-> path,
     activated |-> activated]

IsError(v) == v.tag = "PyrightError"

\* What str(e) of an unexpected exception reads.
ExcText == <<"x">>


DotVenv == <<".", "v", "e", "n", "v">>

(***************************************************************************)
(* pyrightconfig.json.                                                     *)
(***************************************************************************)
Absent    == [kind |-> "absent"]
Truncated == [kind |-> "truncated"]
Json(settings) == [kind |-> "json", settings |-> settings]

\* json.dump({"reportUnusedImport": "warning"}, f, indent=2)
DefaultConfig == Json({<<"reportUnusedImport", "warning">>})

\* What somebody else keeps in the file.
UserConfig == Json({<<"reportUnusedImport", "error">>,
                    <<"typeCheckingMode", "strict">>})

(***************************************************************************)
(* The outcomes of subprocess.run.                                         *)
(***************************************************************************)
Exit(returncode, stdout, stderr) ==
    [kind |-> "exit", returncode |-> returncode, stdout |-> stdout,
     stderr |-> stderr]
\* The process ran past its timeout.
TimeoutExpired    == [kind |-> "timeout"]
\* The process could not be launched: no such executable.
FileNotFoundError == [kind |-> "notfound"]
\* The process could not be launched for another reason (an OSError).
OtherException    == [kind |-> "exception"]

Stdouts == {<<>>, <<"o">>}
Stderrs == {<<>>, <<"e">>}

UvOutcomes ==
    {Exit(rc, <<>>, <<>>) : rc \in {0, 1}}
        \cup {TimeoutExpired, FileNotFoundError, OtherException}

PresenceOutcomes ==
    {Exit(rc, <<>>, <<>>) : rc \in {0, 1}}
        \cup {TimeoutExpired, FileNotFoundError, OtherException}

InstallOutcomes ==
    {Exit(0, <<>>, <<>>)} \cup {Exit(1, <<>>, e) : e \in Stderrs}
        \cup {TimeoutExpired, FileNotFoundError, OtherException}

ExecOutcomes ==
    {Exit(rc, o, e) : rc \in 0..MaxExit, o \in Stdouts, e \in Stderrs}
        \cup {TimeoutExpired, FileNotFoundError, OtherException}

\* open(config_path, "w") and json.dump: written, open failed, dump failed.
WriteOutcomes == {"written", "openfailed", "dumpfailed"}

(***************************************************************************)
(* pyright_service: the steps.                                             *)
(***************************************************************************)
check_uv_installed(out) ==
    CASE out.kind = "exit"     -> Bool(out.returncode = 0)
      [] out.kind = "notfound" ->
            PyrightError("uv is not installed. Please install uv (https://github.com/astral-sh/uv) to use this tool.", <<>>)
      [] out.kind = "timeout"  ->
            PyrightError("Timeout checking uv installation", <<>>)
      [] OTHER                 -> PyrightError("Error checking uv: ", ExcText)

check_project_setup(f, project_path) ==
    IF ~HasManifest(f, project_path)
    THEN PyrightError("Project needs to be set up. No pyproject.toml or setup.py found in {}. Please run 'uv init' or create a proper Python project structure.",
                      Str(project_path))
    ELSE Bool(TRUE)

check_venv_exists(f, project_path) ==
    IF ~Exists(f, project_path)
    THEN PyrightError("Project path does not exist: ", Str(project_path))
    ELSE VenvStatus(VenvIsDir(f, project_path),
                    Append(project_path, DotVenv), FALSE)

\* A plausible slip: the timeout is caught by the general handler.
install_pyright_timeout_as_error(out) ==
    CASE out.kind = "exit" ->
            IF out.returncode # 0
            THEN PyrightError("Failed to install pyright: ", out.stderr)
            ELSE Bool(TRUE)
      [] OTHER -> PyrightError("Error installing pyright: ", ExcText)

install_pyright(out) ==
    CASE out.kind = "exit" ->
            IF out.returncode # 0
            THEN PyrightError("Failed to install pyright: ", out.stderr)
            ELSE Bool(TRUE)
      [] out.kind = "timeout" -> PyrightError("Timeout installing pyright", <<>>)
      [] OTHER -> PyrightError("Error installing pyright: ", ExcText)

check_pyright_installed(out) ==
    CASE out.kind = "exit"    -> Bool(out.returncode = 0)
      [] out.kind = "timeout" ->
            PyrightError("Timeout checking pyright installation", <<>>)
      [] OTHER -> PyrightError("Error checking pyright: ", ExcText)

\* A plausible slip: the target is only checked for existence.
validate_target_exists_only(f, project_path, target_dir) ==
    IF ~Exists(f, target_dir)
    THEN PyrightError("Target directory does not exist: ", Str(target_dir))
    ELSE Bool(TRUE)

\* run_pyright_on_directory, its two checks of the target.
validate_target(f, project_path, target_dir) ==
    IF ~Exists(f, target_dir)
    THEN PyrightError("Target directory does not exist: ", Str(target_dir))
    ELSE IF ~is_relative_to(target_dir, project_path)
    THEN PyrightError("Target directory {} is not within project {}",
                      Str(target_dir) \o <<" ">> \o Str(project_path))
    ELSE Bool(TRUE)

\* ensure_pyright_config: config_path.exists()
config_exists(cfg, project_path) == cfg[project_path] # Absent

\* ensure_pyright_config: what the write leaves in the file.
config_written(old, io) ==
    CASE io = "written"    -> DefaultConfig
      [] io = "dumpfailed" -> Truncated
      [] OTHER             -> old

\* ensure_pyright_config: what the write returns.
config_write_result(io) ==
    IF io = "written" THEN Bool(TRUE)
    ELSE PyrightError("Error creating pyrightconfig.json: ", ExcText)

\* A plausible slip: a non-zero exit code is reported as an error.
run_pyright_process_check(out, target_dir) ==
    CASE out.kind = "exit" /\ out.returncode = 0 ->
            PyrightResult(out.stdout \o out.stderr, out.returncode, target_dir)
      [] out.kind = "timeout" -> PyrightError("Timeout running pyright", <<>>)
      [] OTHER -> PyrightError("Error running pyright: ", ExcText)

\* run_pyright_on_directory, the execution.
run_pyright_process(out, target_dir) ==
    CASE out.kind = "exit" ->
            PyrightResult(out.stdout \o out.stderr, out.returncode, target_dir)
      [] out.kind = "timeout" -> PyrightError("Timeout running pyright", <<>>)
      [] OTHER -> PyrightError("Error running pyright: ", ExcText)


(***************************************************************************)
(* setup_and_run_pyright and run_pyright_on_directory: what follows each   *)
(* step, given what the step returned.                                     *)
(***************************************************************************)
Go(next)      == [next |-> next, result |-> None]
Return(value) == [next |-> "return", result |-> value]
\* case _ as unreachable: assert False
Unreachable   == [next |-> "unreachable", result |-> None]

\* The order the code would have with the target checked after the config.
step_order_config_first ==
    <<"uv", "project", "venv", "presence", "install", "config", "target", "exec">>

\* The order in which the code places the steps.
step_order ==
    <<"uv", "project", "venv", "presence", "install", "target", "config", "exec">>

\* The step the code places after step s.
Following(s) ==
    step_order[(CHOOSE i \in 1..Len(step_order) : step_order[i] = s) + 1]

after_uv(ret) == IF IsError(ret) THEN Return(ret) ELSE Go(Following("uv"))

after_project(ret) ==
    IF IsError(ret) THEN Return(ret) ELSE Go(Following("project"))

\* A plausible slip: a missing environment is not looked at.
after_venv_ignore_missing(ret) ==
    IF IsError(ret) THEN Return(ret) ELSE Go(Following("venv"))

after_venv(ret) ==
    IF IsError(ret) THEN Return(ret)
    ELSE IF ret.tag # "VenvStatus" THEN Unreachable
    ELSE IF ~ret.exists
    THEN Return(PyrightError("Virtual environment not found at ", Str(ret.path)))
    ELSE Go(Following("venv"))

\* A plausible slip: a presence check that failed counts as "not present".
after_presence_install_on_error(ret) ==
    IF IsError(ret) \/ ~ret.value THEN Go(Following("presence"))
    ELSE Go(Following("install"))

after_presence(ret) ==
    IF IsError(ret) THEN Return(ret)
    ELSE IF ret.tag # "bool" THEN Unreachable
    ELSE IF ~ret.value THEN Go(Following("presence"))
    ELSE Go(Following("install"))

\* A plausible slip: the presence check is repeated after the install.
after_install_recheck(ret) ==
    IF IsError(ret) THEN Return(ret) ELSE Go(Following("venv"))

\* A plausible slip: the install's error is dropped.
after_install_ignore_error(ret) == Go(Following("install"))

after_install(ret) ==
    IF IsError(ret) THEN Return(ret)
    ELSE IF ret.tag # "bool" THEN Unreachable
    ELSE Go(Following("install"))

after_target(ret) ==
    IF IsError(ret) THEN Return(ret) ELSE Go(Following("target"))

after_config(ret) ==
    IF IsError(ret) THEN Return(ret) ELSE Go(Following("config"))

after_exec(ret) == Return(ret)

(***************************************************************************)
(* main.run_pyright: the gate and the reply.                               *)
(***************************************************************************)
Reply(prefix, text, arg) == [prefix |-> prefix, text |-> text, arg |-> arg]

NoReply == Reply("", "<no reply>", <<>>)

NotConfiguredReply ==
    Reply("", "The pyright mcp is not configured correctly", <<>>)

NotAuthorizedReply(project_path) ==
    Reply("Error: ", "Project directory {} is not in allowed directories",
          Str(project_path))

\* any(project_path == allowed or project_path.is_relative_to(allowed) ...)
is_authorized(project_path, allowed) ==
    \E i \in 1..Len(allowed) :
        project_path = allowed[i] \/ is_relative_to(project_path, allowed[i])

\* A plausible slip: the rejection is computed and not returned.
gate_no_return(allowed, project_path) ==
    IF allowed = None THEN "unconfigured" ELSE "granted"

\* The two early returns of run_pyright.
gate(allowed, project_path) ==
    IF allowed = None THEN "unconfigured"
    ELSE IF ~is_authorized(project_path, allowed.items) THEN "denied"
    ELSE "granted"

\* The match on the pipeline's result.
render_result(result) ==
    IF IsError(result)
    THEN Reply("Error: ", result.message.text, result.message.arg)
    ELSE Reply("", "", result.output)

(***************************************************************************)
(* The state.                                                              *)
(***************************************************************************)
IdleReq ==
    [pc |-> "idle", project_path |-> <<>>, target_path |-> <<>>,
     trace |-> <<>>, result |-> None, reply |-> NoReply]

ProjectDirInputs ==
    {Raw(TRUE, WP), Raw(TRUE, WPX), Raw(TRUE, RootO), Raw(TRUE, WPS),
     Raw(TRUE, WPL), Raw(TRUE, <<W, P, DotDot, PX>>), Raw(FALSE, <<P>>),
     Raw(TRUE, <<W, PNul>>)}

TargetDirInputs ==
    {Raw(FALSE, <<Dot>>), Raw(FALSE, <<S>>), Raw(FALSE, <<N>>),
     Raw(FALSE, <<DotDot, PX>>), Raw(FALSE, <<L>>), Raw(TRUE, RootO),
     Raw(FALSE, <<PNul>>)}

\* --allowed-dir as given on the command line; the option's default is [].
AllowedDirInputs ==
    {<<>>, <<Raw(TRUE, WP)>>, <<Raw(TRUE, RootO), Raw(FALSE, <<P>>)>>,
     <<Raw(TRUE, WPL)>>}

\* What the operator types when serve asks: one directory, then one more for
\* each "Add another directory?" that is answered with yes.
PromptInputs ==
    {<<Raw(TRUE, WP)>>, <<Raw(TRUE, RootO), Raw(FALSE, <<P>>)>>,
     <<Raw(TRUE, WP), Raw(FALSE, <<PNul>>)>>}

\* The transports serve knows, and the values of --transport.
Transports      == {"stdio", "sse", "streamable-http"}
TransportInputs == Transports \cup {"bogus"}

\* The module as imported: nothing started, allowed_paths None, one request
\* served at a time.
Init ==
    /\ started = "no"
    /\ allowed_paths = None
    /\ fs \in {f \in FsStates : FsOk(f)}
    /\ links \in LinkStates(fs)
    /\ config = [root \in ProjectRoots |-> Absent]
    /\ reqs = {1}
    /\ loop = 0
    /\ req = [r \in ReqIds |-> IdleReq]
    /\ listed = None

(***************************************************************************)
(* Start-up.                                                               *)
(***************************************************************************)
\* A plausible slip: the transport is run before the allow-list is stored.
Serve_before_assignment(allowed_dirs, prompted, transport) ==
    /\ started = "no"
    /\ started' = IF transport \in Transports THEN "serve" ELSE "exited"
    /\ UNCHANGED <<allowed_paths, fs, links, config, reqs, loop, req, listed>>

\* main.serve: with no --allowed-dir the directories are asked for, at least
\* one; the allow-list is resolved and stored; then the transport runs, or,
\* when the transport is not a known one, serve exits with status 1.
Serve(allowed_dirs, prompted, transport) ==
    LET dirs   == IF Len(allowed_dirs) = 0 THEN prompted ELSE allowed_dirs
        paths  == [i \in 1..Len(dirs) |-> Resolve(links, dirs[i])]
        raises == \E i \in 1..Len(dirs) : paths[i] = ValueError
    IN
    /\ started = "no"
    /\ allowed_paths' = IF raises THEN allowed_paths
                        ELSE List([i \in 1..Len(dirs) |-> paths[i].path])
    /\ started' = CASE raises                  -> "raised"
                     [] transport \in Transports -> "serve"
                     [] OTHER                   -> "exited"
    /\ UNCHANGED <<fs, links, config, reqs, loop, req, listed>>

\* A transport is running and takes requests.
Running == started \in {"serve", "direct"}

\* The mcp object run without serve: allowed_paths keeps its module-level None.
RunUnconfigured ==
    /\ started = "no"
    /\ started' = "direct"
    /\ UNCHANGED <<allowed_paths, fs, links, config, reqs, loop, req, listed>>

(***************************************************************************)
(* A request.                                                              *)
(***************************************************************************)
\* One step run: its name, the outcome of its subprocess or write (NoProcess
\* when it has none) and what it returned.
Entry(step, out, ret) == [step |-> step, out |-> out, ret |-> ret]

NoProcess == [kind |-> "none"]

Last(s) == s[Len(s)]

\* run_pyright up to its first await: resolve, configured?, authorized?
RunPyrightGate(r, project_dir, target_dir) ==
    /\ Running
    /\ loop = 0
    /\ req[r].pc = "idle"
    /\ LET project == Resolve(links, project_dir)
           target  == Resolve(links, JoinPath(project_dir, target_dir))
           project_path == project.path
           target_path  == target.path
           base == [IdleReq EXCEPT !.project_path = project_path,
                                   !.target_path = target_path]
           g    == gate(allowed_paths, project_path)
       IN  req' = [req EXCEPT ![r] =
               IF project = ValueError \/ target = ValueError
               THEN [IdleReq EXCEPT !.pc = "raised"]
               ELSE IF g = "unconfigured"
               THEN [base EXCEPT !.pc = "done", !.reply = NotConfiguredReply]
               ELSE IF g = "denied"
               THEN [base EXCEPT !.pc = "done",
                                 !.trace = <<Entry("auth", NoProcess, Bool(FALSE))>>,
                                 !.reply = NotAuthorizedReply(project_path)]
               ELSE [base EXCEPT !.pc = "info",
                                 !.trace = <<Entry("auth", NoProcess, Bool(TRUE))>>]]
    /\ UNCHANGED <<started, allowed_paths, fs, links, config, reqs, loop, listed>>

\* await ctx.info(...) returns; setup_and_run_pyright is entered and blocks the
\* event loop until it returns.
EnterPipeline(r) ==
    /\ loop = 0
    /\ req[r].pc = "info"
    /\ loop' = r
    /\ req' = [req EXCEPT ![r].pc = step_order[1]]
    /\ UNCHANGED <<started, allowed_paths, fs, links, config, reqs, listed>>

\* A step returned ret and the pipeline decided d.
Advance(r, step, out, ret, d) ==
    /\ req' = [req EXCEPT ![r].trace = Append(@, Entry(step, out, ret)),
                          ![r].pc = CASE d.next = "return"      -> "notify"
                                      [] d.next = "unreachable" -> "raised"
                                      [] OTHER                  -> d.next,
                          ![r].result = d.result]
    /\ loop' = IF d.next \in {"return", "unreachable"} THEN 0 ELSE loop

CheckUv(r) ==
    /\ loop = r
    /\ req[r].pc = "uv"
    /\ \E out \in UvOutcomes :
         LET ret == check_uv_installed(out)
         IN  Advance(r, "uv", out, ret, after_uv(ret))
    /\ UNCHANGED <<started, allowed_paths, fs, links, config, reqs, listed>>

CheckProject(r) ==
    /\ loop = r
    /\ req[r].pc = "project"
    /\ LET ret == check_project_setup(fs, req[r].project_path)
       IN  Advance(r, "project", NoProcess, ret, after_project(ret))
    /\ UNCHANGED <<started, allowed_paths, fs, links, config, reqs, listed>>

CheckVenv(r) ==
    /\ loop = r
    /\ req[r].pc = "venv"
    /\ LET ret == check_venv_exists(fs, req[r].project_path)
       IN  Advance(r, "venv", NoProcess, ret, after_venv(ret))
    /\ UNCHANGED <<started, allowed_paths, fs, links, config, reqs, listed>>

CheckPresence(r) ==
    /\ loop = r
    /\ req[r].pc = "presence"
    /\ \E out \in PresenceOutcomes :
         LET ret == check_pyright_installed(out)
         IN  Advance(r, "presence", out, ret, after_presence(ret))
    /\ UNCHANGED <<started, allowed_paths, fs, links, config, reqs, listed>>

Install(r) ==
    /\ loop = r
    /\ req[r].pc = "install"
    /\ \E out \in InstallOutcomes :
         LET ret == install_pyright(out)
         IN  Advance(r, "install", out, ret, after_install(ret))
    /\ UNCHANGED <<started, allowed_paths, fs, links, config, reqs, listed>>

ValidateTarget(r) ==
    /\ loop = r
    /\ req[r].pc = "target"
    /\ LET ret == validate_target(fs, req[r].project_path, req[r].target_path)
       IN  Advance(r, "target", NoProcess, ret, after_target(ret))
    /\ UNCHANGED <<started, allowed_paths, fs, links, config, reqs, listed>>

\* ensure_pyright_config: the file is there, or the write is next.
ConfigCheck(r) ==
    /\ loop = r
    /\ req[r].pc = "config"
    /\ IF config_exists(config, req[r].project_path)
       THEN Advance(r, "config", NoProcess, Bool(TRUE), after_config(Bool(TRUE)))
       ELSE /\ req' = [req EXCEPT ![r].pc = "write"]
            /\ loop' = loop
    /\ UNCHANGED <<started, allowed_paths, fs, links, config, reqs, listed>>

\* ensure_pyright_config: open(config_path, "w") and json.dump.
ConfigWrite(r) ==
    /\ loop = r
    /\ req[r].pc = "write"
    /\ \E io \in WriteOutcomes :
         LET ret == config_write_result(io)
         IN  /\ config' = [config EXCEPT ![req[r].project_path] =
                               config_written(@, io)]
             /\ Advance(r, "config", [kind |-> io], ret, after_config(ret))
    /\ UNCHANGED <<started, allowed_paths, fs, links, reqs, listed>>

Execute(r) ==
    /\ loop = r
    /\ req[r].pc = "exec"
    /\ \E out \in ExecOutcomes :
         LET ret == run_pyright_process(out, req[r].target_path)
         IN  Advance(r, "exec", out, ret, after_exec(ret))
    /\ UNCHANGED <<started, allowed_paths, fs, links, config, reqs, listed>>

\* run_pyright after the pipeline: the notification, then the reply.
Notify(r) ==
    /\ loop = 0
    /\ req[r].pc = "notify"
    /\ req' = [req EXCEPT ![r].pc = "done",
                          ![r].reply = render_result(req[r].result)]
    /\ UNCHANGED <<started, allowed_paths, fs, links, config, reqs, loop, listed>>

\* The reply, or the error the handler raised, is sent; the slot serves the
\* next request.
Deliver(r) ==
    /\ req[r].pc \in {"done", "raised"}
    /\ req' = [req EXCEPT ![r] = IdleReq]
    /\ UNCHANGED <<started, allowed_paths, fs, links, config, reqs, loop, listed>>

(***************************************************************************)
(* main.list_allowed_directories.                                          *)
(***************************************************************************)
\* A plausible slip: the directories' names instead of their paths.
list_allowed_directories_names(allowed) ==
    IF allowed # None
    THEN [i \in 1..Len(allowed.items) |->
             IF allowed.items[i] = <<>> THEN <<>> ELSE Last(allowed.items[i])]
    ELSE <<>>

\* [str(p) for p in allowed_paths] if allowed_paths is not None else []
list_allowed_directories(allowed) ==
    IF allowed # None
    THEN [i \in 1..Len(allowed.items) |-> Str(allowed.items[i])]
    ELSE <<>>

ListAllowedDirectories ==
    /\ Running
    /\ loop = 0
    /\ listed' = List(list_allowed_directories(allowed_paths))
    /\ UNCHANGED <<started, allowed_paths, fs, links, config, reqs, loop, req>>

(***************************************************************************)
(* The environment: somebody else creates pyrightconfig.json in /w/p.      *)
(***************************************************************************)
EnvWriteConfig ==
    /\ fs.proj
    /\ config[WP] = Absent
    /\ config' = [config EXCEPT ![WP] = UserConfig]
    /\ UNCHANGED <<started, allowed_paths, fs, links, reqs, loop, req, listed>>

Next ==
    \/ \E dirs \in AllowedDirInputs, prompted \in PromptInputs,
          transport \in TransportInputs : Serve(dirs, prompted, transport)
    \/ RunUnconfigured
    \/ \E r \in reqs, p \in ProjectDirInputs, t \in TargetDirInputs :
         RunPyrightGate(r, p, t)
    \/ \E r \in reqs : EnterPipeline(r)
    \/ \E r \in reqs : CheckUv(r)
    \/ \E r \in reqs : CheckProject(r)
    \/ \E r \in reqs : CheckVenv(r)
    \/ \E r \in reqs : CheckPresence(r)
    \/ \E r \in reqs : Install(r)
    \/ \E r \in reqs : ValidateTarget(r)
    \/ \E r \in reqs : ConfigCheck(r)
    \/ \E r \in reqs : ConfigWrite(r)
    \/ \E r \in reqs : Execute(r)
    \/ \E r \in reqs : Notify(r)
    \/ \E r \in reqs : Deliver(r)
    \/ ListAllowedDirectories
    \/ EnvWriteConfig

Spec == Init /\ [][Next]_vars


(***************************************************************************)
(* The claims.                                                             *)
(***************************************************************************)
\* p is root or below it, by whole segments: root followed by some segments.
BelowOrEqual(p, root) == \E k \in 0..Len(p) : SubSeq(p, 1, k) = root

\* p is inside the allow-list.
InAllowList(p) ==
    /\ allowed_paths # None
    /\ \E i \in 1..Len(allowed_paths.items) : BelowOrEqual(p, allowed_paths.items[i])

\* The request's authorization check was made and passed.
PassedGate(r) == req[r].trace # <<>> /\ req[r].trace[1].ret = Bool(TRUE)

\* The handler of request r ended in Path.resolve(), before any decision.
ResolveRaised(r) == req[r].pc = "raised" /\ req[r].trace = <<>>

\* The steps run by request r.
Steps(r) == {req[r].trace[i].step : i \in 1..Len(req[r].trace)}

\* C1: with the allow-list configured, a request whose paths resolved passes
\* the authorization gate iff its resolved project path is a root or below
\* one by whole segments;
\* otherwise (a mere string prefix included) its reply is the "not in allowed
\* directories" error.
C1_GateBySegments ==
    \A r \in reqs :
        (allowed_paths # None /\ req[r].pc # "idle" /\ ~ResolveRaised(r)) =>
            /\ req[r].trace # <<>>
            /\ PassedGate(r) <=> InAllowList(req[r].project_path)
            /\ ~PassedGate(r) =>
                   /\ req[r].pc = "done"
                   /\ req[r].reply = NotAuthorizedReply(req[r].project_path)

\* C1, its case: /w/pX asked with root /w/p allowed, and rejected.
C1_Witness ==
    \E r \in reqs :
        /\ allowed_paths = List(<<WP>>)
        /\ req[r].project_path = WPX
        /\ IsPrefix(Str(WP), Str(req[r].project_path))
        /\ req[r].pc = "done"
        /\ req[r].reply = NotAuthorizedReply(WPX)

\* C2 (as the specification states it): while allowed_paths is None every
\* request, whatever its project_dir and target_dir, is answered with the "not
\* configured" sentinel, which differs from every "not authorized" reply, and
\* no step of the pipeline is run.
C2_UnconfiguredSentinel ==
    allowed_paths = None =>
        /\ \A r \in reqs :
               req[r].pc # "idle" =>
                   /\ req[r].pc = "done"
                   /\ req[r].reply = NotConfiguredReply
                   /\ req[r].reply # NotAuthorizedReply(req[r].project_path)
                   /\ req[r].trace = <<>>
                   /\ req[r].result = None
        /\ loop = 0
        /\ \A root \in ProjectRoots : config[root] \in {Absent, UserConfig}

\* The request is inside setup_and_run_pyright or has come out of it.
InOrPastPipeline(r) ==
    \/ req[r].pc \notin {"idle", "info", "done", "raised"}
    \/ Len(req[r].trace) > 1
    \/ req[r].result # None

\* C3: the pipeline is entered, and a config file written by it, only for a
\* project path that passed the authorization gate.
C3_PipelineOnlyIfAuthorized ==
    /\ \A r \in reqs :
           (InOrPastPipeline(r) \/ loop = r) =>
               PassedGate(r) /\ InAllowList(req[r].project_path)
    /\ \A root \in ProjectRoots :
           config[root] \in {DefaultConfig, Truncated} => InAllowList(root)

\* C3, its case: a rejected request next to a project never touched.
C3_Witness ==
    \E r \in reqs :
        /\ req[r].pc = "done"
        /\ req[r].trace = <<Entry("auth", NoProcess, Bool(FALSE))>>
        /\ fs.proj /\ fs.manifest /\ fs.venv = "dir"
        /\ req[r].project_path = WPX
        /\ req[r].result = None
        /\ config[WPX] = Absent

\* C4: a step that returned a PyrightError is the last step of its run, and
\* the run returns that very error.
C4_FirstFailureReturned ==
    \A r \in reqs :
        \A i \in 1..Len(req[r].trace) :
            IsError(req[r].trace[i].ret) =>
                /\ i = Len(req[r].trace)
                /\ req[r].pc \in {"notify", "done"}
                /\ req[r].result = req[r].trace[i].ret
                /\ loop # r

\* C4, its case: the install failed in the middle of the sequence.
C4_Witness ==
    \E r \in reqs :
        /\ req[r].pc = "done"
        /\ Len(req[r].trace) = 6
        /\ Last(req[r].trace).step = "install"
        /\ IsError(Last(req[r].trace).ret)
        /\ req[r].result = Last(req[r].trace).ret

\* The order the specification gives.
ClaimedOrder ==
    <<"auth", "uv", "project", "venv", "presence", "install", "target",
      "config", "exec">>

Rank(step) == CHOOSE i \in 1..Len(ClaimedOrder) : ClaimedOrder[i] = step

\* C5: the steps a request runs are run in the specification's order:
\* authorization, uv, project, venv, presence, install, target, config, exec.
C5_StepOrder ==
    \A r \in reqs :
        /\ \A i \in 1..Len(req[r].trace) :
               \E k \in 1..Len(ClaimedOrder) : ClaimedOrder[k] = req[r].trace[i].step
        /\ \A i, j \in 1..Len(req[r].trace) :
               i < j => Rank(req[r].trace[i].step) < Rank(req[r].trace[j].step)

\* C5, its case: a run that went through all nine steps.
C5_Witness ==
    \E r \in reqs :
        /\ req[r].pc = "done"
        /\ [i \in 1..Len(req[r].trace) |-> req[r].trace[i].step] = ClaimedOrder

\* The install step of request r was invoked.
InstallInvoked(r) == req[r].pc = "install" \/ "install" \in Steps(r)

\* The presence check of request r completed and returned False.
PresenceSaidAbsent(r) ==
    \E i \in 1..Len(req[r].trace) :
        /\ req[r].trace[i].step = "presence"
        /\ req[r].trace[i].ret = Bool(FALSE)

\* C6: the install step is invoked iff the presence check returned False.
C6_InstallIffAbsent ==
    \A r \in reqs : InstallInvoked(r) <=> PresenceSaidAbsent(r)

\* C6, its case: the presence check said "not present" and the install ran.
C6_Witness ==
    \E r \in reqs :
        /\ PresenceSaidAbsent(r)
        /\ "install" \in Steps(r)
        /\ req[r].pc = "done"

\* C7 (as the specification states it): a uv version query that could not be
\* launched, timed out or did not exit with status 0 ends the run in a Failure
\* with no later step.
C7_UvMustSucceed ==
    \A r \in reqs :
        \A i \in 1..Len(req[r].trace) :
            (/\ req[r].trace[i].step = "uv"
             /\ ~(req[r].trace[i].out.kind = "exit"
                  /\ req[r].trace[i].out.returncode = 0)) =>
                /\ i = Len(req[r].trace)
                /\ req[r].pc \in {"notify", "done"}
                /\ IsError(req[r].result)

\* C8: an execution that ran to completion yields Success with its exit code
\* and stdout followed by stderr, whatever the exit code; the execution step
\* yields a Failure only on a timeout or a failed launch.
C8_ExitCodeIsNotFailure ==
    \A r \in reqs :
        \A i \in 1..Len(req[r].trace) :
            req[r].trace[i].step = "exec" =>
                LET e == req[r].trace[i] IN
                /\ e.out.kind = "exit" =>
                       /\ e.ret.tag = "PyrightResult"
                       /\ e.ret.exit_code = e.out.returncode
                       /\ e.ret.output = e.out.stdout \o e.out.stderr
                       /\ e.ret.directory = req[r].target_path
                       /\ req[r].result = e.ret
                       /\ req[r].pc = "done" =>
                              req[r].reply = Reply("", "", e.out.stdout \o e.out.stderr)
                /\ IsError(e.ret) <=>
                       e.out.kind \in {"timeout", "notfound", "exception"}

\* C8, its case: the type-checker exited with status 2 and the run succeeded.
C8_Witness ==
    \E r \in reqs :
        /\ req[r].pc = "done"
        /\ req[r].result.tag = "PyrightResult"
        /\ req[r].result.exit_code = 2
        /\ req[r].result.output = <<"o", "e">>
        /\ req[r].reply = Reply("", "", <<"o", "e">>)

\* The target of request r is missing or outside its project root.
TargetInvalid(r) ==
    \/ req[r].target_path \notin Dirs(fs)
    \/ ~BelowOrEqual(req[r].target_path, req[r].project_path)

TargetInvalidTexts ==
    {"Target directory does not exist: ",
     "Target directory {} is not within project {}"}

\* C9: a run whose target is missing or outside the project root never
\* succeeds; once its earlier steps have succeeded it ends in the TargetInvalid
\* failure; it neither reaches the config step nor executes the type-checker.
C9_TargetValidated ==
    \A r \in reqs :
        (PassedGate(r) /\ TargetInvalid(r)) =>
            /\ req[r].pc \notin {"config", "write", "exec"}
            /\ Steps(r) \cap {"config", "exec"} = {}
            /\ req[r].result.tag # "PyrightResult"
            /\ "target" \in Steps(r) =>
                   /\ Last(req[r].trace).step = "target"
                   /\ IsError(req[r].result)
                   /\ req[r].result = Last(req[r].trace).ret
                   /\ req[r].result.message.text \in TargetInvalidTexts
                   /\ req[r].pc \in {"notify", "done"}
            /\ req[r].pc = "done" =>
                   /\ IsError(req[r].result)
                   /\ req[r].reply.prefix = "Error: "

\* C9, its case: target ../pX of project /w/p exists, lies outside the project,
\* and is refused after six successful steps, the config file still absent.
C9_Witness ==
    \E r \in reqs :
        /\ req[r].pc = "done"
        /\ req[r].project_path = WP
        /\ req[r].target_path = WPX
        /\ Len(req[r].trace) >= 6
        /\ Last(req[r].trace).step = "target"
        /\ req[r].result.message.text = "Target directory {} is not within project {}"
        /\ config[WP] = Absent

\* The config step of request r wrote (or tried to write) the file.
ConfigWriteAttempted(r) ==
    \E i \in 1..Len(req[r].trace) :
        req[r].trace[i].step = "config" /\ req[r].trace[i].out # NoProcess

\* C10 (as the specification states it): a call of ensure_pyright_config
\* never modifies an existing file: when it returns, a config file that
\* existed at the project root before the step has its contents unchanged and
\* the call has returned success; a file that was absent has been created with
\* exactly reportUnusedImport = warning; no other config file is touched.
C10_ConfigEnsureIdempotent ==
    [][\A r \in reqs :
         LET root == req[r].project_path IN
         (req[r].pc \in {"config", "write"} /\ req'[r].pc \notin {"config", "write"}) =>
             /\ Last(req'[r].trace).step = "config"
             /\ Last(req'[r].trace).ret = Bool(TRUE)
             /\ config[root] # Absent => config'[root] = config[root]
             /\ config[root] = Absent => config'[root] = DefaultConfig
             /\ \A other \in ProjectRoots \ {root} : config'[other] = config[other]
      ]_vars

\* The project root of request r is on disk without a .venv directory.
VenvMissing(r) ==
    /\ req[r].project_path \in Dirs(fs)
    /\ ~(req[r].project_path = WP /\ fs.venv = "dir")

\* What C11 says of a state.
C11_State ==
    \A r \in reqs :
        (PassedGate(r) /\ VenvMissing(r)) =>
            /\ req[r].pc \notin {"presence", "install", "target", "config",
                                 "write", "exec"}
            /\ Steps(r) \cap {"presence", "install", "target", "config", "exec"} = {}
            /\ req[r].result.tag # "PyrightResult"
            /\ "venv" \in Steps(r) =>
                   /\ Last(req[r].trace).step = "venv"
                   /\ req[r].pc \in {"notify", "done"}
                   /\ req[r].result =
                          PyrightError("Virtual environment not found at ",
                                       Str(req[r].project_path) \o <<"/">> \o DotVenv)
            /\ req[r].pc = "done" =>
                   /\ IsError(req[r].result)
                   /\ req[r].reply.prefix = "Error: "

\* C11: a run for a project root that exists without a .venv directory ends,
\* once it reaches the environment check, in "Virtual environment not found at
\* <project>/.venv"; it runs neither the presence check nor the install nor any
\* later step, and no step creates the environment.
C11_VenvMissingStops ==
    [][C11_State' /\ fs' = fs]_vars

\* C11, its case: .venv is a plain file and the run stopped at the third step.
C11_Witness ==
    \E r \in reqs :
        /\ fs.venv = "file"
        /\ req[r].pc = "done"
        /\ req[r].project_path = WP
        /\ Len(req[r].trace) = 4
        /\ req[r].reply =
               Reply("Error: ", "Virtual environment not found at ",
                     <<"/", "w", "/", "p", "/", ".", "v", "e", "n", "v">>)

\* The run of request r got past the tool check for a project root that is
\* not on disk, and has returned.
ProjectRootGone(r) ==
    /\ PassedGate(r)
    /\ req[r].project_path \notin Dirs(fs)
    /\ "project" \in Steps(r)
    /\ req[r].pc \in {"notify", "done"}

\* C12 (as the specification states it): a run whose project root is not on
\* disk ends in "Project path does not exist: <path>", not in the failure of
\* a project that is not set up nor in that of a missing environment.
C12_ProjectPathMissing ==
    \A r \in reqs :
        ProjectRootGone(r) =>
            req[r].result =
                PyrightError("Project path does not exist: ", Str(req[r].project_path))

\* The four steps that launch a subprocess.
ExternalSteps == {"uv", "presence", "install", "exec"}

\* The message the specification expects of a timeout at each of them.
TimeoutText(step) ==
    CASE step = "uv"       -> "Timeout checking uv installation"
      [] step = "presence" -> "Timeout checking pyright installation"
      [] step = "install"  -> "Timeout installing pyright"
      [] step = "exec"     -> "Timeout running pyright"

\* C15: at each external invocation a timeout, and only a timeout, returns the
\* Failure that names the timeout of that step; a tool-reported failure or a
\* failed launch at the same step returns something else.
C15_TimeoutDistinct ==
    \A r \in reqs :
        \A i \in 1..Len(req[r].trace) :
            LET e == req[r].trace[i] IN
            e.step \in ExternalSteps =>
                /\ e.out.kind = "timeout" <=>
                       e.ret = PyrightError(TimeoutText(e.step), <<>>)
                /\ e.out.kind = "timeout" =>
                       /\ req[r].result = e.ret
                       /\ \A other \in ExternalSteps \ {e.step} :
                              e.ret.message.text # TimeoutText(other)

\* C15, its case: the install timed out.
C15_Witness ==
    \E r \in reqs :
        /\ req[r].pc = "done"
        /\ req[r].trace # <<>>
        /\ Last(req[r].trace).step = "install"
        /\ Last(req[r].trace).out = TimeoutExpired
        /\ req[r].reply = Reply("Error: ", "Timeout installing pyright", <<>>)

\* C16: no step is run twice in a run, the step about to run has not run
\* before, and a successful install is followed by the target validation.
C16_NoRetry ==
    \A r \in reqs :
        /\ \A i, j \in 1..Len(req[r].trace) :
               i # j => req[r].trace[i].step # req[r].trace[j].step
        /\ req[r].pc \notin Steps(r)
        /\ req[r].pc = "write" => "config" \notin Steps(r)
        /\ \A i \in 1..Len(req[r].trace) :
               (req[r].trace[i].step = "install"
                  /\ req[r].trace[i].ret = Bool(TRUE)) =>
                   IF i = Len(req[r].trace)
                   THEN req[r].pc = "target"
                   ELSE req[r].trace[i + 1].step = "target"

\* C16, its case: the install succeeded and the run went on to the end.
C16_Witness ==
    \E r \in reqs :
        /\ req[r].pc = "done"
        /\ Len(req[r].trace) = 9
        /\ req[r].trace[6] = Entry("install", Exit(0, <<>>, <<>>), Bool(TRUE))
        /\ req[r].trace[7].step = "target"

\* C17 (as the specification states it): no step, of any process, changes a
\* pyrightconfig.json that exists.
C17_ExistingConfigKept ==
    [][\A root \in ProjectRoots :
         config[root] # Absent => config'[root] = config[root]]_vars

\* The request has launched the type-checker.
Launched(r) == req[r].pc = "exec" \/ "exec" \in Steps(r)

\* The request has written, or is about to write, the config file.
WritesConfig(r) == req[r].pc = "write" \/ ConfigWriteAttempted(r)

\* C19: whenever the type-checker is launched the target is the project root
\* or below it and the project root is inside the allow-list; a config file
\* is written only at a project root inside the allow-list.
C19_AnalysisInsideAllowedRoot ==
    /\ \A r \in reqs :
           /\ Launched(r) =>
                  /\ BelowOrEqual(req[r].target_path, req[r].project_path)
                  /\ InAllowList(req[r].project_path)
                  /\ InAllowList(req[r].target_path)
                  /\ req[r].target_path \in Dirs(fs)
           /\ WritesConfig(r) => InAllowList(req[r].project_path)
    /\ \A root \in ProjectRoots :
           config[root] \in {DefaultConfig, Truncated} => InAllowList(root)

\* C19, its case: the type-checker ran on /w/p/s of project /w/p, whose
\* config file this run created.
C19_Witness ==
    \E r \in reqs :
        /\ "exec" \in Steps(r)
        /\ req[r].project_path = WP
        /\ req[r].target_path = WPS
        /\ ConfigWriteAttempted(r)
        /\ config[WP] = DefaultConfig

\* What C14 says of a reply of list_allowed_directories.
C14_ReplyOk ==
    listed # None =>
        /\ allowed_paths = None => listed = List(<<>>)
        /\ allowed_paths # None =>
               /\ Len(listed.items) = Len(allowed_paths.items)
               /\ \A i \in 1..Len(allowed_paths.items) :
                      /\ listed.items[i] = Str(allowed_paths.items[i])
                      /\ Head(listed.items[i]) = "/"

\* C14: list_allowed_directories replies with the allow-list, one absolute
\* path string per root and in order, or with the empty list when the
\* allow-list is not configured; it can always be called on a started server
\* and changes nothing but its reply.
C14_ListAllowedDirectories ==
    [][/\ C14_ReplyOk'
       /\ listed' # listed =>
              UNCHANGED <<started, allowed_paths, fs, links, config, reqs, loop, req>>
       /\ (Running /\ loop = 0) => ENABLED ListAllowedDirectories
      ]_vars

\* C14, its case: two roots, listed in the order they were given.
C14_Witness ==
    /\ allowed_paths = List(<<RootO, WP>>)
    /\ listed = List(<< <<"/", "o">>, <<"/", "w", "/", "p">> >>)

\* C18: in a process started through serve the allow-list is assigned once, in
\* the step that starts the transport (or refuses an unknown one and exits)
\* and before any request; it is not empty, also when no directory was given
\* on the command line; no later step changes it, and every request is
\* answered against it, none with the "not configured" sentinel.
C18_AllowListSetOnce ==
    [][/\ started' = "no" =>
              /\ allowed_paths' = None
              /\ \A r \in reqs : req'[r].pc = "idle"
       /\ allowed_paths' # allowed_paths =>
              /\ started = "no" /\ started' \in {"serve", "exited"}
              /\ allowed_paths = None
              /\ \A r \in reqs : req[r].pc = "idle" /\ req'[r].pc = "idle"
       /\ started = "serve" => (started' = "serve" /\ allowed_paths' = allowed_paths)
       /\ started' = "exited" =>
              /\ allowed_paths' # None
              /\ \A r \in reqs : req'[r].pc = "idle"
       /\ started' = "serve" =>
              /\ allowed_paths' # None
              /\ Len(allowed_paths'.items) >= 1
              /\ \A r \in reqs :
                     (req'[r].pc # "idle" /\ ~ResolveRaised(r)') =>
                         /\ req'[r].trace # <<>>
                         /\ req'[r].reply # NotConfiguredReply
                         /\ req'[r].trace[1].ret = Bool(TRUE) <=>
                                \E i \in 1..Len(allowed_paths'.items) :
                                    BelowOrEqual(req'[r].project_path,
                                                 allowed_paths'.items[i])
      ]_vars

\* C18, its case: a server started through serve has answered two kinds of
\* request, one inside and one outside the allow-list it was given.
C18_Witness ==
    /\ started = "serve"
    /\ allowed_paths = List(<<RootO, WP>>)
    /\ \E r \in reqs :
           /\ req[r].pc = "done"
           /\ req[r].project_path = WPS
           /\ req[r].trace[1].ret = Bool(TRUE)

(***************************************************************************)
(* Two requests in flight.  The transport starts a handler task per        *)
(* request on one event loop; the disk holds a project that is set up, and *)
(* the requests name that project or its neighbour.                        *)
(***************************************************************************)
InitConc ==
    /\ started = "no"
    /\ allowed_paths = None
    /\ fs = [proj |-> TRUE, manifest |-> TRUE, venv |-> "dir"]
    /\ links = [x \in {} |-> <<>>]
    /\ config = [root \in ProjectRoots |-> Absent]
    /\ reqs = {1, 2}
    /\ loop = 0
    /\ req = [r \in ReqIds |-> IdleReq]
    /\ listed = None

\* One step of the handler of request r, from its first await on.
RequestStep(r) ==
    \/ EnterPipeline(r)
    \/ CheckUv(r)
    \/ CheckProject(r)
    \/ CheckVenv(r)
    \/ CheckPresence(r)
    \/ Install(r)
    \/ ValidateTarget(r)
    \/ ConfigCheck(r)
    \/ ConfigWrite(r)
    \/ Execute(r)
    \/ Notify(r)

NextConc ==
    \/ \E dirs \in {<<>>, <<Raw(TRUE, WP)>>}, transport \in {"stdio", "bogus"} :
         Serve(dirs, <<Raw(TRUE, WP)>>, transport)
    \/ RunUnconfigured
    \/ \E r \in reqs, p \in {Raw(TRUE, WP), Raw(TRUE, WPX)},
          t \in {Raw(FALSE, <<Dot>>), Raw(FALSE, <<DotDot, PX>>)} :
         RunPyrightGate(r, p, t)
    \/ \E r \in reqs : RequestStep(r)
    \/ \E r \in reqs : Deliver(r)
    \/ ListAllowedDirectories
    \/ EnvWriteConfig

SpecConc == InitConc /\ [][NextConc]_vars

\* Request r waits for a subprocess it has launched.
InSubprocess(r) == req[r].pc \in {"uv", "presence", "install", "exec"}

\* C13 (as the specification states it): while one request waits for a
\* subprocess, another request that has arrived can have its configured /
\* authorized decision taken.
C13_GateNotBlocked ==
    \A a \in reqs, b \in reqs :
        (a # b /\ InSubprocess(a) /\ req[b].pc = "idle") =>
            ENABLED (\E p \in ProjectDirInputs, t \in TargetDirInputs :
                         RunPyrightGate(b, p, t))

(***************************************************************************)
(* Scheduling: a subprocess completes or runs into its timeout, and the    *)
(* event loop resumes a handler that can go on.                            *)
(***************************************************************************)
SpecFair == Init /\ [][Next]_vars /\ \A r \in ReqIds : WF_vars(RequestStep(r))

\* The reply of request r is one of the four the handler can return.
ReplyShape(r) ==
    \/ req[r].reply = NotConfiguredReply /\ req[r].result = None
    \/ req[r].reply = NotAuthorizedReply(req[r].project_path) /\ req[r].result = None
    \/ /\ req[r].result.tag = "PyrightError"
       /\ req[r].reply = Reply("Error: ", req[r].result.message.text,
                               req[r].result.message.arg)
    \/ /\ req[r].result.tag = "PyrightResult"
       /\ req[r].reply = Reply("", "", req[r].result.output)

\* C20 (as the specification states it): every request that was taken up is
\* answered; its reply is set once, when it is answered, and is the sentinel,
\* the not-authorized error, "Error: <message>" of the run's Failure or the
\* output of its Success; no handler ends by raising, in an "unreachable"
\* assertion or otherwise.
C20_OneReply ==
    /\ \A r \in ReqIds : (req[r].pc # "idle") ~> (req[r].pc = "done")
    /\ [](\A r \in reqs :
            /\ req[r].pc # "raised"
            /\ req[r].pc = "done" => ReplyShape(r)
            /\ req[r].pc # "done" => req[r].reply = NoReply)
    /\ [][\A r \in reqs :
            req'[r].reply # req[r].reply =>
                \/ req[r].reply = NoReply /\ req'[r].pc = "done"
                \/ req[r].pc = "done" /\ req'[r].pc = "idle"]_vars

====
